---- MODULE Spec2Model ----
(***************************************************************************)
(* Circular distributions of pycircstat2/distribution.py.                  *)
(*                                                                         *)
(* Every entry point (_argcheck, _pdf, _cdf of each distribution class) is *)
(* one action: it draws its arguments from small sets and leaves the value *)
(* the entry point returns in `ret`.                                       *)
(*                                                                         *)
(* Numbers.  Shape parameters are integers in a unit chosen per parameter  *)
(* so that every threshold the code tests is an integer:                   *)
(*   kappa  in units of 0.0005   (0.001 is KappaSmall = 2)                 *)
(*   psi    in units of 5e-9     (isclose's atol 1e-8 is PsiAtol = 2)      *)
(*   lmbd   in units of 1e-5     (1 is LmbdOne; isclose's atol + rtol*1    *)
(*                                = 1.001e-5 admits a distance of 1 unit)  *)
(*   rho    in units of 1/4      (0.5 is RhoHalf = 2, 1 is RhoOne = 4)     *)
(*   mu, x  in units of pi/2     (2*pi is TwoPi = 4)                       *)
(* nu is a whole number (1 is NuOne).  The angles of the inverse           *)
(* Batschelet transform are p*(pi/2) + r with integers p and r (Real).     *)
(* A density is a function of the angle, so the value of a density or of   *)
(* a normalizing constant is kept as a formula: a quotient of two bags of  *)
(* named factors (Value), multiplied, divided and cancelled as the code    *)
(* multiplies and divides.                                                 *)
(***************************************************************************)
EXTENDS Integers, Sequences, FiniteSets, Bags, TLC

VARIABLES dist,     \* the distribution whose entry point ran last
          fn,       \* the entry point: "argcheck", "pdf", "cdf"
          params,   \* its shape parameters (a record)
          x,        \* its angle argument (a sequence; <<>> when left symbolic)
          ret,      \* what it returned
          handler,  \* "own": a method of the class; "generic": rv_continuous's
          signal,   \* "none", "warning" or "error" surfaced to the caller
          conv      \* root solves: which elements the solver can converge on

vars == <<dist, fn, params, x, ret, handler, signal, conv>>

---------------------------------------------------------------------------
(* Bounds of the model *)

MaxKappa == 3
MaxPsi == 3
MaxLen == 2
MaxAngle == 5
MaxHalfPi == 7
MaxZeta == 2

(* Units and thresholds *)

KappaSmall == 2
PsiAtol == 2
LmbdOne == 100000
LmbdTol == 1
NuOne == 1
PiNum == 355
PiDen == 113
RhoHalf == 2
RhoOne == 4
TwoPi == 4

Abs(n) == IF n < 0 THEN -n ELSE n

---------------------------------------------------------------------------
(* Formulas: num / den, each a bag of factor names *)

Factors(S) == SetToBag(S)

Value(n, d) == [num |-> n, den |-> d]

One == Value(EmptyBag, EmptyBag)

Atom(a) == Value(Factors({a}), EmptyBag)

\* The factors the two bags share, with their smaller count.
Common(b1, b2) ==
    LET D == BagToSet(b1) \cap BagToSet(b2)
    IN  [e \in D |-> IF b1[e] < b2[e] THEN b1[e] ELSE b2[e]]

Cancel(v) ==
    LET c == Common(v.num, v.den)
    IN  Value(v.num (-) c, v.den (-) c)

Mul(a, b) == Cancel(Value(a.num (+) b.num, a.den (+) b.den))

Div(a, b) == Cancel(Value(a.num (+) b.den, a.den (+) b.num))

\* The factors that depend on the angle.
XDep == {"E", "G", "S", "Ea", "Ga", "Kv", "C", "W", "Qinv", "Card", "x",
         "CardCdf", "Kib", "KibNeg"}

\* quad_vec(f, a=-pi, b=pi)[0]: the factors free of the angle leave the
\* integral; a constant integrand gives the length of the period.
IntName == [a \in XDep |-> "Int" \o a]

quad_vec(v) ==
    LET xs == BagToSet(v.num) \cap XDep
        cs == [e \in BagToSet(v.num) \ XDep |-> v.num[e]]
    IN  IF xs = {}
        THEN Mul(v, Value(Factors({"2", "pi"}), EmptyBag))
        ELSE LET a == CHOOSE e \in xs : TRUE
             IN  Cancel(Value(cs (+) Factors({IntName[a]}), v.den))


---------------------------------------------------------------------------
(* Quadrature and vectorization *)

TwoPiV == Value(Factors({"2", "pi"}), EmptyBag)

\* scipy.integrate.quad(f, a, b) returns the pair (integral, abserr).
quad(f, a, b) ==
    << [part |-> "integral", integrand |-> f, a |-> a, b |-> b],
       [part |-> "abserr", integrand |-> f, a |-> a, b |-> b] >>

Array(items) == [array |-> items]

Tuple(items) == [tuple |-> items]

\* np.vectorize of a function that returns a pair, outs[i] being what it
\* returns on element i: numpy gives one array per output, as a tuple of
\* arrays.
vectorize2(outs) ==
    Tuple(<< [i \in 1..Len(outs) |-> outs[i][1]],
             [i \in 1..Len(outs) |-> outs[i][2]] >>)

\* _cdf_single of the classes whose _cdf integrates self._pdf.
cdf_single(pdf, b) == quad(pdf, 0, b)

---------------------------------------------------------------------------
(* Circular uniform, cardioid, Cartwright, wrapped normal, wrapped Cauchy,
   von Mises *)

mu_ok(mu) == 0 <= mu /\ mu <= TwoPi

circularuniform_pdf == Div(One, Atom("pi"))

circularuniform_cdf(xs) ==
    Array([i \in 1..Len(xs) |-> Div(Atom("x"), TwoPiV)])

cardioid_argcheck(rho, mu) == (0 <= rho /\ rho <= RhoHalf) /\ mu_ok(mu)

cardioid_pdf(rho, mu) == Div(Div(Atom("Card"), Atom("2")), Atom("pi"))

cardioid_cdf(xs, rho, mu) ==
    Array([i \in 1..Len(xs) |-> Div(Atom("CardCdf"), TwoPiV)])

cartwright_argcheck(zeta, mu) == zeta > 0 /\ mu_ok(mu)

cartwright_pdf(zeta, mu) ==
    Div(Mul(Value(Factors({"pow2z"}) (+) Factors({"gam1z"})
                    (+) Factors({"gam1z"}), EmptyBag),
            Atom("C")),
        Value(Factors({"pi", "gam2z"}), EmptyBag))

cartwright_cdf(xs, zeta, mu) ==
    LET single(b) == cdf_single(cartwright_pdf(zeta, mu), b)
    IN  vectorize2([i \in 1..Len(xs) |-> single(xs[i])])

wrapnorm_argcheck(rho, mu) == (0 < rho /\ rho <= RhoOne) /\ mu_ok(mu)

wrapnorm_pdf(rho, mu) == Div(Atom("W"), TwoPiV)

wrapnorm_cdf(xs, rho, mu) ==
    LET single(b) == cdf_single(wrapnorm_pdf(rho, mu), b)
    IN  vectorize2([i \in 1..Len(xs) |-> single(xs[i])])

wrapcauchy_argcheck(rho, mu) == (0 < rho /\ rho <= RhoOne) /\ mu_ok(mu)

\* (1 - rho**2) / (2*pi*(1 + rho**2 - 2*rho*cos(x - mu))): the numerator is
\* 0 at rho = 1.
wrapcauchy_pdf(rho, mu) ==
    Div(Mul(Atom(IF rho = RhoOne THEN "0" ELSE "1-rho2"), Atom("Qinv")),
        TwoPiV)

wrapcauchy_cdf(xs, rho, mu) ==
    LET single(b) == cdf_single(wrapcauchy_pdf(rho, mu), b)
    IN  vectorize2([i \in 1..Len(xs) |-> single(xs[i])])

vonmises_argcheck(kappa, mu) == kappa > 0 /\ mu_ok(mu)

vonmises_pdf(kappa, mu) ==
    Div(Atom("E"), Value(Factors({"2", "pi", "I0"}), EmptyBag))

vonmises_cdf(xs, kappa, mu) ==
    LET single(b) == cdf_single(vonmises_pdf(kappa, mu), b)
    IN  vectorize2([i \in 1..Len(xs) |-> single(xs[i])])

---------------------------------------------------------------------------
(* Jones-Pewsey *)

isclose_psi(psi) == Abs(Abs(psi) - 0) <= PsiAtol

kernel_jonespewsey ==
    Div(Atom("G"), Value(Factors({"2", "pi", "coshkpi"}), EmptyBag))

c_jonespewsey == quad_vec(kernel_jonespewsey)

jonespewsey_argcheck(kappa, psi, mu) ==
    (kappa >= 0) /\ (0 <= mu /\ mu <= TwoPi)

jonespewsey_pdf_psi_first(kappa, psi, mu) ==
    IF isclose_psi(psi)
    THEN Mul(Div(One, Value(Factors({"2", "pi", "I0"}), EmptyBag)),
             Atom("E"))
    ELSE IF kappa < KappaSmall
         THEN Div(One, Value(Factors({"2", "pi"}), EmptyBag))
         ELSE Div(kernel_jonespewsey, c_jonespewsey)

jonespewsey_pdf(kappa, psi, mu) ==
    IF kappa < KappaSmall
    THEN Div(One, Value(Factors({"2", "pi"}), EmptyBag))
    ELSE IF isclose_psi(psi)
         THEN Mul(Div(One, Value(Factors({"2", "pi", "I0"}), EmptyBag)),
                  Atom("E"))
         ELSE Div(kernel_jonespewsey, c_jonespewsey)

\* vonmises_pdf, the function local to _cdf: c * exp(kappa*cos(x - mu)).
jonespewsey_cdf_vonmises_pdf(c) == Mul(c, Atom("E"))

jonespewsey_cdf(xs, kappa, psi, mu) ==
    IF isclose_psi(psi)
    THEN LET c == c_jonespewsey
             single(b) == quad(jonespewsey_cdf_vonmises_pdf(c), 0, b)
         IN  vectorize2([i \in 1..Len(xs) |-> single(xs[i])])
    ELSE LET single(b) == quad(jonespewsey_pdf(kappa, psi, mu), 0, b)
         IN  vectorize2([i \in 1..Len(xs) |-> single(xs[i])])

\* 1 / psi on a numpy value that is 0: inf and a divide-by-zero
\* RuntimeWarning, in _kernel_jonespewsey under _c_jonespewsey.
jonespewsey_cdf_signal(psi) ==
    IF isclose_psi(psi) /\ psi = 0 THEN "warning" ELSE "none"

---------------------------------------------------------------------------
(* Flat-topped von Mises *)

kernel_vmext == Atom("Kv")

c_vmext == Div(One, quad_vec(kernel_vmext))

vonmises_ext_argcheck(kappa, nu, mu) ==
    (kappa >= 0) /\ (-NuOne <= nu /\ nu <= NuOne) /\ mu_ok(mu)

vonmises_ext_pdf(kappa, nu, mu) == Mul(c_vmext, kernel_vmext)

vonmises_ext_cdf(xs, kappa, nu, mu) ==
    LET single(b) == cdf_single(vonmises_ext_pdf(kappa, nu, mu), b)
    IN  vectorize2([i \in 1..Len(xs) |-> single(xs[i])])

---------------------------------------------------------------------------
(* Sine-skewed and asymmetric extended Jones-Pewsey *)

jonespewsey_sineskewed_argcheck(kappa, psi, lmda) ==
    (kappa >= 0) /\ (-LmbdOne <= lmda /\ lmda <= LmbdOne)

jonespewsey_sineskewed_pdf(kappa, psi, lmda) ==
    IF kappa < KappaSmall
    THEN Mul(Div(One, TwoPiV), Atom("S"))
    ELSE IF isclose_psi(psi)
         THEN Mul(Mul(Div(One, Value(Factors({"2", "pi", "I0"}), EmptyBag)),
                      Atom("E")),
                  Atom("S"))
         ELSE LET kernel ==
                      Div(Atom("G"),
                          Value(Factors({"2", "pi", "coshkpi"}), EmptyBag))
                  c == quad_vec(kernel)
              IN  Div(Mul(Atom("S"), kernel), c)

jonespewsey_asymext_argcheck(kappa, psi, nu) ==
    (kappa >= 0) /\ (0 <= nu /\ nu < NuOne)

jonespewsey_asymext_pdf(kappa, psi, nu) ==
    IF isclose_psi(psi)
    THEN LET kernel == Atom("Ea")
             c == quad_vec(kernel)
         IN  Div(kernel, c)
    ELSE LET kernel == Atom("Ga")
             c == quad_vec(kernel)
         IN  Div(kernel, c)

---------------------------------------------------------------------------
(* Inverse Batschelet *)

\* The angle p*(pi/2) + r.
Real(p, r) == [p |-> p, r |-> r]

Zero == Real(0, 0)

\* cos(p*pi/2)
Cos4(p) == CASE p % 4 = 0 -> 1
             [] p % 4 = 2 -> -1
             [] OTHER -> 0

\* v > pi: (p - 2)*pi + 2*r > 0, with pi taken as PiNum/PiDen (which
\* orders these numbers as pi does: p and r are small).
GtPi(v) == 2 * v.r * PiDen > (2 - v.p) * PiNum

ZGrid == {Real(p, 0) : p \in (-MaxHalfPi)..MaxHalfPi}

\* _tnuinv(z, nu) for the angle x0 sought: z - nu*(1 + cos(z)) - x0
tnuinv(z, nu, x0) == Real(z.p - x0.p, z.r - nu * (1 + Cos4(z.p)) - x0.r)

\* scipy.optimize.root on the whole array: one solve of the n equations
\* together, one success flag.  roots[i] is the zero of equation i and
\* cv[i] says whether the iteration gets there; the solve succeeds when it
\* does for every element.  A solve that fails returns its last iterate:
\* the starting point x0 = 0 for an element it could not move to its zero,
\* and also for a solvable element held[i] back by the joint iteration.
root(roots, cv, held) ==
    [x |-> [i \in 1..Len(roots) |->
                IF cv[i] /\ ~held[i] THEN roots[i] ELSE Zero],
     success |-> \A i \in 1..Len(roots) : cv[i]]

tnu(xs, nu, cv, held) ==
    LET roots == [i \in 1..Len(xs) |->
                      CHOOSE z \in ZGrid : tnuinv(z, nu, xs[i]) = Zero]
        y == root(roots, cv, held).x
    IN  [i \in 1..Len(xs) |->
             IF GtPi(y[i]) THEN Real(y[i].p - 4, y[i].r) ELSE y[i]]

isclose_lmbd(lmbd, b) == Abs(lmbd - b) <= LmbdTol

\* The zero of _slmbd for the angle a is kept by name: at "root" it is the
\* w with w - 0.5*(1 + lmbd)*sin(w) = a, at "x0" the solver's starting point.
slmbdinv(as, lmbd, cv, held) ==
    IF isclose_lmbd(lmbd, -LmbdOne)
    THEN [i \in 1..Len(as) |-> [of |-> as[i], at |-> "identity"]]
    ELSE LET roots == [i \in 1..Len(as) |-> [of |-> as[i], at |-> "root"]]
             y == [i \in 1..Len(as) |->
                       IF cv[i] /\ ~held[i] THEN roots[i]
                       ELSE [of |-> as[i], at |-> "x0"]]
         IN  y

c_invbatschelet(kappa, lmbd) ==
    LET mult == Value(Factors({"2", "pi", "I0"}), EmptyBag)
    IN  IF isclose_lmbd(lmbd, LmbdOne)
        THEN Div(One, Mul(mult, Atom("1-A1")))
        ELSE Div(One, Mul(mult, Atom("con1-con2*intval")))

inverse_batschelet_argcheck(kappa, nu, lmbd) ==
    /\ kappa >= 0
    /\ -NuOne <= nu /\ nu <= NuOne
    /\ -LmbdOne <= lmbd /\ lmbd <= LmbdOne

inverse_batschelet_pdf(xs, kappa, nu, lmbd, cv) ==
    LET arg1 == tnu(xs, nu, cv.T, cv.Theld)
        arg2 == slmbdinv(arg1, lmbd, cv.S, cv.Sheld)
        c == c_invbatschelet(kappa, lmbd)
    IN  IF isclose_lmbd(lmbd, -LmbdOne)
        THEN Array([i \in 1..Len(xs) |->
                 [value |-> Mul(c, Atom("KibNeg")),
                  arg1 |-> arg1[i], arg2 |-> arg2[i]]])
        ELSE Array([i \in 1..Len(xs) |->
                 [value |-> Mul(c, Atom("Kib")),
                  arg1 |-> arg1[i], arg2 |-> arg2[i]]])

---------------------------------------------------------------------------
(* The classes and the methods each class body defines *)

Distributions ==
    {"circularuniform", "cardioid", "cartwright", "wrapnorm", "wrapcauchy",
     "vonmises", "jonespewsey", "vonmises_ext", "jonespewsey_sineskewed",
     "jonespewsey_asymext", "inverse_batschelet"}

Defines ==
    [d \in Distributions |->
        CASE d = "circularuniform" -> {"_pdf", "_cdf"}
          [] d \in {"jonespewsey_sineskewed", "jonespewsey_asymext",
                    "inverse_batschelet"} -> {"_argcheck", "_pdf"}
          [] OTHER -> {"_argcheck", "_pdf", "_cdf"}]

\* Python's method lookup: the class's own method, else rv_continuous's.
Handler(d, m) == IF m \in Defines[d] THEN "own" ELSE "generic"

\* rv_continuous._cdf: the density integrated from the support's lower end.
generic_cdf(pdf, xs) ==
    Array([i \in 1..Len(xs) |->
               [part |-> "integral", integrand |-> pdf, lower |-> "a",
                b |-> xs[i]]])

---------------------------------------------------------------------------
(* The state machine *)

\* No parameters, no value: before a call and after its return.
None == [none |-> TRUE]

\* What _argcheck returns.
Bool(b) == [bool |-> b]

Init ==
    /\ dist = "none"
    /\ fn = "none"
    /\ params = None
    /\ x = <<>>
    /\ ret = None
    /\ handler = "none"
    /\ signal = "none"
    /\ conv = None

KappasAll == (-1)..MaxKappa
Psis == (-MaxPsi)..MaxPsi
MusAll == (-1)..(TwoPi + 1)
RhosAll == (-1)..(RhoOne + 1)
ZetasAll == (-1)..MaxZeta
NusAll == (-NuOne - 1)..(NuOne + 1)
LmbdsAll == {-LmbdOne - 1, -LmbdOne, -LmbdOne + 1, -LmbdOne + 2, 0,
             LmbdOne - 2, LmbdOne - 1, LmbdOne, LmbdOne + 1}
Angles == 0..MaxAngle

SeqsUpTo(S, n) == UNION {[1..k -> S] : k \in 1..n}

\* An entry point runs on a freshly loaded module or after the caller has
\* taken the previous result: no call leaves anything behind for the next.
Call(d, f, p, xs, r, s, c) ==
    /\ dist' = d
    /\ fn' = f
    /\ params' = p
    /\ x' = xs
    /\ ret' = r
    /\ handler' = Handler(d, "_" \o f)
    /\ signal' = s
    /\ conv' = c

Return ==
    /\ fn # "none"
    /\ dist' = "none"
    /\ fn' = "none"
    /\ params' = None
    /\ x' = <<>>
    /\ ret' = None
    /\ handler' = "none"
    /\ signal' = "none"
    /\ conv' = None

CircularUniformPdf ==
    /\ fn = "none"
    /\ Call("circularuniform", "pdf", None, <<>>, circularuniform_pdf,
            "none", None)

CircularUniformCdf ==
    /\ fn = "none"
    /\ \E xs \in SeqsUpTo(Angles, MaxLen) :
           Call("circularuniform", "cdf", None, xs, circularuniform_cdf(xs),
                "none", None)

CardioidArgcheck ==
    /\ fn = "none"
    /\ \E rho \in RhosAll, mu \in MusAll :
           Call("cardioid", "argcheck", [rho |-> rho, mu |-> mu], <<>>,
                Bool(cardioid_argcheck(rho, mu)), "none", None)

CardioidPdf ==
    /\ fn = "none"
    /\ \E rho \in RhosAll, mu \in MusAll :
           /\ cardioid_argcheck(rho, mu)
           /\ Call("cardioid", "pdf", [rho |-> rho, mu |-> mu], <<>>,
                   cardioid_pdf(rho, mu), "none", None)

CardioidCdf ==
    /\ fn = "none"
    /\ \E rho \in RhosAll, mu \in MusAll, xs \in SeqsUpTo(Angles, MaxLen) :
           /\ cardioid_argcheck(rho, mu)
           /\ Call("cardioid", "cdf", [rho |-> rho, mu |-> mu], xs,
                   cardioid_cdf(xs, rho, mu), "none", None)

CartwrightArgcheck ==
    /\ fn = "none"
    /\ \E zeta \in ZetasAll, mu \in MusAll :
           Call("cartwright", "argcheck", [zeta |-> zeta, mu |-> mu], <<>>,
                Bool(cartwright_argcheck(zeta, mu)), "none", None)

CartwrightPdf ==
    /\ fn = "none"
    /\ \E zeta \in ZetasAll, mu \in MusAll :
           /\ cartwright_argcheck(zeta, mu)
           /\ Call("cartwright", "pdf", [zeta |-> zeta, mu |-> mu], <<>>,
                   cartwright_pdf(zeta, mu), "none", None)

CartwrightCdf ==
    /\ fn = "none"
    /\ \E zeta \in ZetasAll, mu \in MusAll, xs \in SeqsUpTo(Angles, MaxLen) :
           /\ cartwright_argcheck(zeta, mu)
           /\ Call("cartwright", "cdf", [zeta |-> zeta, mu |-> mu], xs,
                   cartwright_cdf(xs, zeta, mu), "none", None)

WrapnormArgcheck ==
    /\ fn = "none"
    /\ \E rho \in RhosAll, mu \in MusAll :
           Call("wrapnorm", "argcheck", [rho |-> rho, mu |-> mu], <<>>,
                Bool(wrapnorm_argcheck(rho, mu)), "none", None)

WrapnormPdf ==
    /\ fn = "none"
    /\ \E rho \in RhosAll, mu \in MusAll :
           /\ wrapnorm_argcheck(rho, mu)
           /\ Call("wrapnorm", "pdf", [rho |-> rho, mu |-> mu], <<>>,
                   wrapnorm_pdf(rho, mu), "none", None)

WrapnormCdf ==
    /\ fn = "none"
    /\ \E rho \in RhosAll, mu \in MusAll, xs \in SeqsUpTo(Angles, MaxLen) :
           /\ wrapnorm_argcheck(rho, mu)
           /\ Call("wrapnorm", "cdf", [rho |-> rho, mu |-> mu], xs,
                   wrapnorm_cdf(xs, rho, mu), "none", None)

WrapcauchyArgcheck ==
    /\ fn = "none"
    /\ \E rho \in RhosAll, mu \in MusAll :
           Call("wrapcauchy", "argcheck", [rho |-> rho, mu |-> mu], <<>>,
                Bool(wrapcauchy_argcheck(rho, mu)), "none", None)

WrapcauchyPdf ==
    /\ fn = "none"
    /\ \E rho \in RhosAll, mu \in MusAll :
           /\ wrapcauchy_argcheck(rho, mu)
           /\ Call("wrapcauchy", "pdf", [rho |-> rho, mu |-> mu], <<>>,
                   wrapcauchy_pdf(rho, mu), "none", None)

WrapcauchyCdf ==
    /\ fn = "none"
    /\ \E rho \in RhosAll, mu \in MusAll, xs \in SeqsUpTo(Angles, MaxLen) :
           /\ wrapcauchy_argcheck(rho, mu)
           /\ Call("wrapcauchy", "cdf", [rho |-> rho, mu |-> mu], xs,
                   wrapcauchy_cdf(xs, rho, mu), "none", None)

VonmisesArgcheck ==
    /\ fn = "none"
    /\ \E kappa \in KappasAll, mu \in MusAll :
           Call("vonmises", "argcheck", [kappa |-> kappa, mu |-> mu], <<>>,
                Bool(vonmises_argcheck(kappa, mu)), "none", None)

VonmisesPdf ==
    /\ fn = "none"
    /\ \E kappa \in KappasAll, mu \in MusAll :
           /\ vonmises_argcheck(kappa, mu)
           /\ Call("vonmises", "pdf", [kappa |-> kappa, mu |-> mu], <<>>,
                   vonmises_pdf(kappa, mu), "none", None)

VonmisesCdf ==
    /\ fn = "none"
    /\ \E kappa \in KappasAll, mu \in MusAll, xs \in SeqsUpTo(Angles, MaxLen) :
           /\ vonmises_argcheck(kappa, mu)
           /\ Call("vonmises", "cdf", [kappa |-> kappa, mu |-> mu], xs,
                   vonmises_cdf(xs, kappa, mu), "none", None)

JonesPewseyArgcheck ==
    /\ fn = "none"
    /\ \E kappa \in KappasAll, psi \in Psis, mu \in MusAll :
           Call("jonespewsey", "argcheck",
                [kappa |-> kappa, psi |-> psi, mu |-> mu], <<>>,
                Bool(jonespewsey_argcheck(kappa, psi, mu)), "none", None)

JonesPewseyPdf ==
    /\ fn = "none"
    /\ \E kappa \in KappasAll, psi \in Psis, mu \in MusAll :
           /\ jonespewsey_argcheck(kappa, psi, mu)
           /\ Call("jonespewsey", "pdf",
                   [kappa |-> kappa, psi |-> psi, mu |-> mu], <<>>,
                   jonespewsey_pdf(kappa, psi, mu), "none", None)

JonesPewseyCdf ==
    /\ fn = "none"
    /\ \E kappa \in KappasAll, psi \in Psis, mu \in MusAll,
          xs \in SeqsUpTo(Angles, MaxLen) :
           /\ jonespewsey_argcheck(kappa, psi, mu)
           /\ Call("jonespewsey", "cdf",
                   [kappa |-> kappa, psi |-> psi, mu |-> mu], xs,
                   jonespewsey_cdf(xs, kappa, psi, mu),
                   jonespewsey_cdf_signal(psi), None)

VonmisesExtArgcheck ==
    /\ fn = "none"
    /\ \E kappa \in KappasAll, nu \in NusAll, mu \in MusAll :
           Call("vonmises_ext", "argcheck",
                [kappa |-> kappa, nu |-> nu, mu |-> mu], <<>>,
                Bool(vonmises_ext_argcheck(kappa, nu, mu)), "none", None)

VonmisesExtPdf ==
    /\ fn = "none"
    /\ \E kappa \in KappasAll, nu \in NusAll, mu \in MusAll :
           /\ vonmises_ext_argcheck(kappa, nu, mu)
           /\ Call("vonmises_ext", "pdf",
                   [kappa |-> kappa, nu |-> nu, mu |-> mu], <<>>,
                   vonmises_ext_pdf(kappa, nu, mu), "none", None)

VonmisesExtCdf ==
    /\ fn = "none"
    /\ \E kappa \in KappasAll, nu \in NusAll, mu \in MusAll,
          xs \in SeqsUpTo(Angles, MaxLen) :
           /\ vonmises_ext_argcheck(kappa, nu, mu)
           /\ Call("vonmises_ext", "cdf",
                   [kappa |-> kappa, nu |-> nu, mu |-> mu], xs,
                   vonmises_ext_cdf(xs, kappa, nu, mu), "none", None)

SineSkewedArgcheck ==
    /\ fn = "none"
    /\ \E kappa \in KappasAll, psi \in Psis, lmda \in LmbdsAll :
           Call("jonespewsey_sineskewed", "argcheck",
                [kappa |-> kappa, psi |-> psi, lmda |-> lmda], <<>>,
                Bool(jonespewsey_sineskewed_argcheck(kappa, psi, lmda)),
                "none", None)

SineSkewedPdf ==
    /\ fn = "none"
    /\ \E kappa \in KappasAll, psi \in Psis, lmda \in LmbdsAll :
           /\ jonespewsey_sineskewed_argcheck(kappa, psi, lmda)
           /\ Call("jonespewsey_sineskewed", "pdf",
                   [kappa |-> kappa, psi |-> psi, lmda |-> lmda], <<>>,
                   jonespewsey_sineskewed_pdf(kappa, psi, lmda), "none", None)

SineSkewedCdf ==
    /\ fn = "none"
    /\ \E kappa \in KappasAll, psi \in Psis, lmda \in LmbdsAll,
          xs \in SeqsUpTo(Angles, MaxLen) :
           /\ jonespewsey_sineskewed_argcheck(kappa, psi, lmda)
           /\ Call("jonespewsey_sineskewed", "cdf",
                   [kappa |-> kappa, psi |-> psi, lmda |-> lmda], xs,
                   generic_cdf(jonespewsey_sineskewed_pdf(kappa, psi, lmda),
                               xs),
                   "none", None)

AsymExtArgcheck ==
    /\ fn = "none"
    /\ \E kappa \in KappasAll, psi \in Psis, nu \in NusAll :
           Call("jonespewsey_asymext", "argcheck",
                [kappa |-> kappa, psi |-> psi, nu |-> nu], <<>>,
                Bool(jonespewsey_asymext_argcheck(kappa, psi, nu)),
                "none", None)

AsymExtPdf ==
    /\ fn = "none"
    /\ \E kappa \in KappasAll, psi \in Psis, nu \in NusAll :
           /\ jonespewsey_asymext_argcheck(kappa, psi, nu)
           /\ Call("jonespewsey_asymext", "pdf",
                   [kappa |-> kappa, psi |-> psi, nu |-> nu], <<>>,
                   jonespewsey_asymext_pdf(kappa, psi, nu), "none", None)

AsymExtCdf ==
    /\ fn = "none"
    /\ \E kappa \in KappasAll, psi \in Psis, nu \in NusAll,
          xs \in SeqsUpTo(Angles, MaxLen) :
           /\ jonespewsey_asymext_argcheck(kappa, psi, nu)
           /\ Call("jonespewsey_asymext", "cdf",
                   [kappa |-> kappa, psi |-> psi, nu |-> nu], xs,
                   generic_cdf(jonespewsey_asymext_pdf(kappa, psi, nu), xs),
                   "none", None)

InverseBatscheletArgcheck ==
    /\ fn = "none"
    /\ \E kappa \in KappasAll, nu \in NusAll, lmbd \in LmbdsAll :
           Call("inverse_batschelet", "argcheck",
                [kappa |-> kappa, nu |-> nu, lmbd |-> lmbd], <<>>,
                Bool(inverse_batschelet_argcheck(kappa, nu, lmbd)),
                "none", None)

Next ==
    \/ CircularUniformPdf
    \/ CircularUniformCdf
    \/ CardioidArgcheck
    \/ CardioidPdf
    \/ CardioidCdf
    \/ CartwrightArgcheck
    \/ CartwrightPdf
    \/ CartwrightCdf
    \/ WrapnormArgcheck
    \/ WrapnormPdf
    \/ WrapnormCdf
    \/ WrapcauchyArgcheck
    \/ WrapcauchyPdf
    \/ WrapcauchyCdf
    \/ VonmisesArgcheck
    \/ VonmisesPdf
    \/ VonmisesCdf
    \/ JonesPewseyArgcheck
    \/ JonesPewseyPdf
    \/ JonesPewseyCdf
    \/ VonmisesExtArgcheck
    \/ VonmisesExtPdf
    \/ VonmisesExtCdf
    \/ SineSkewedArgcheck
    \/ SineSkewedPdf
    \/ SineSkewedCdf
    \/ AsymExtArgcheck
    \/ AsymExtPdf
    \/ AsymExtCdf
    \/ InverseBatscheletArgcheck
    \/ Return

Spec == Init /\ [][Next]_vars

---------------------------------------------------------------------------
(* The inverse Batschelet density, with its two root solves *)

\* The angle whose transform solve has the zero z: x = z - nu*(1 + cos(z)).
AngleOf(z, nu) == tnuinv(z, nu, Zero)

\* What the solver can do on the equations of the angles zs stand for:
\* cv[i], whether the iteration reaches the zero of equation i (the same
\* for equal equations); held[i], whether a solve that fails leaves a
\* solvable element i short of its zero.
Solves(zs) ==
    LET n == Len(zs)
    IN  {s \in [cv : [1..n -> BOOLEAN], held : [1..n -> BOOLEAN]] :
            /\ \A i, j \in 1..n : zs[i] = zs[j] => s.cv[i] = s.cv[j]
            /\ \A i \in 1..n :
                   s.held[i] => (s.cv[i] /\ \E j \in 1..n : ~s.cv[j])}

\* No solve is made: _slmbdinv returns its argument.
NoSolve(zs) ==
    {[cv |-> [i \in 1..Len(zs) |-> TRUE],
      held |-> [i \in 1..Len(zs) |-> FALSE]]}

InverseBatscheletPdf ==
    /\ fn = "none"
    /\ \E kappa \in {0, MaxKappa}, nu \in NusAll, lmbd \in LmbdsAll,
          zs \in SeqsUpTo(ZGrid, MaxLen) :
           \E t \in Solves(zs),
              s \in IF isclose_lmbd(lmbd, -LmbdOne)
                    THEN NoSolve(zs) ELSE Solves(zs) :
               LET xs == [i \in 1..Len(zs) |-> AngleOf(zs[i], nu)]
                   cv == [T |-> t.cv, Theld |-> t.held,
                          S |-> s.cv, Sheld |-> s.held]
               IN  /\ inverse_batschelet_argcheck(kappa, nu, lmbd)
                   /\ Call("inverse_batschelet", "pdf",
                           [kappa |-> kappa, nu |-> nu, lmbd |-> lmbd], xs,
                           inverse_batschelet_pdf(xs, kappa, nu, lmbd, cv),
                           "none", cv)

NextIB ==
    \/ InverseBatscheletPdf
    \/ Return

SpecIB == Init /\ [][NextIB]_vars

---------------------------------------------------------------------------
(* Properties *)

\* The factors of the raw general Jones-Pewsey formula, exponent 1/psi.
RawFactors == {"G", "IntG", "Ga", "IntGa"}

UsesRaw(v) == RawFactors \cap (BagToSet(v.num) \cup BagToSet(v.den)) # {}

UniformDensity == Value(EmptyBag, SetToBag({"2", "pi"}))

VonMisesDensity == Value(SetToBag({"E"}), SetToBag({"2", "pi", "I0"}))

GeneralDensity == Value(SetToBag({"G"}), SetToBag({"IntG"}))

\* C1: the Jones-Pewsey density is the uniform value 1/(2*pi) when
\* kappa < 0.001, whatever psi is; otherwise the von Mises limit
\* exp(kappa*cos(x - mu)) / (2*pi*I0(kappa)) when |psi| is within isclose's
\* tolerance of 0; otherwise the general kernel over its integral on one
\* period.
C1_RegimeSelection ==
    (dist = "jonespewsey" /\ fn = "pdf") =>
        ret = IF params.kappa < KappaSmall THEN UniformDensity
              ELSE IF Abs(params.psi) <= PsiAtol THEN VonMisesDensity
              ELSE GeneralDensity

C1_Witness ==
    /\ dist = "jonespewsey" /\ fn = "pdf"
    /\ params.kappa < KappaSmall /\ params.psi = 0
    /\ ret = UniformDensity

QuadDists ==
    {"cartwright", "wrapnorm", "wrapcauchy", "vonmises", "jonespewsey",
     "vonmises_ext"}

\* The density the class returns for the parameters of the call.
PdfOf(d, p) ==
    CASE d = "cartwright" -> cartwright_pdf(p.zeta, p.mu)
      [] d = "wrapnorm" -> wrapnorm_pdf(p.rho, p.mu)
      [] d = "wrapcauchy" -> wrapcauchy_pdf(p.rho, p.mu)
      [] d = "vonmises" -> vonmises_pdf(p.kappa, p.mu)
      [] d = "jonespewsey" -> jonespewsey_pdf(p.kappa, p.psi, p.mu)
      [] d = "vonmises_ext" -> vonmises_ext_pdf(p.kappa, p.nu, p.mu)

\* C2: the function a quadrature-based cumulative integrates from 0 to x is
\* the density the same class returns for the same parameters: same regime,
\* same normalizing factor.
C2_CdfIntegratesDensity ==
    (fn = "cdf" /\ dist \in QuadDists) =>
        \A i \in 1..Len(x) :
            ret.tuple[1][i].integrand = PdfOf(dist, params)

\* Closed forms of the integrals over one period (Pewsey et al. 2014, 4.3).
KnownIntegral ==
    [a \in XDep |->
        CASE a = "E" -> Value(SetToBag({"2", "pi", "I0"}), EmptyBag)
          [] a \in {"Card", "W"} -> TwoPiV
          [] a = "Qinv" -> Value(SetToBag({"2", "pi"}), SetToBag({"1-rho2"}))
          [] a = "C" -> Value(SetToBag({"pi", "gam2z"}),
                              SetToBag({"pow2z"}) (+) SetToBag({"gam1z"})
                                  (+) SetToBag({"gam1z"}))
          [] OTHER -> Atom(IntName[a])]

\* The integral of v over [0, 2*pi].  The skewing factor S = 1 + lmda*sin(x)
\* integrates to 2*pi alone and drops out beside a kernel even about 0.
PeriodIntegral(v) ==
    LET kern == (BagToSet(v.num) \cap XDep) \ {"S"}
        consts == Value([e \in BagToSet(v.num) \ XDep |-> v.num[e]], v.den)
    IN  IF kern = {} THEN Mul(consts, TwoPiV)
        ELSE Mul(consts, KnownIntegral[CHOOSE a \in kern : TRUE])

\* C3: every density integrates to 1 over one period.
C3_Normalized ==
    (fn = "pdf" /\ dist # "inverse_batschelet") => PeriodIntegral(ret) = One

\* C4: every class supplies its own density and its own cumulative, and its
\* own validator when it has shape parameters.
C4_OwnEntryPoints == (fn # "none") => handler = "own"

\* The domain the documentation gives each parameter.
InDomain(d, p) ==
    CASE d = "cardioid" -> 0 <= p.rho /\ p.rho <= RhoHalf /\ mu_ok(p.mu)
      [] d = "vonmises" -> p.kappa >= 0 /\ mu_ok(p.mu)
      [] d = "jonespewsey" -> p.kappa >= 0 /\ mu_ok(p.mu)
      [] d = "vonmises_ext" ->
            p.kappa >= 0 /\ -NuOne <= p.nu /\ p.nu <= NuOne /\ mu_ok(p.mu)
      [] d = "jonespewsey_sineskewed" ->
            p.kappa >= 0 /\ -LmbdOne <= p.lmda /\ p.lmda <= LmbdOne
      [] d = "jonespewsey_asymext" ->
            p.kappa >= 0 /\ 0 <= p.nu /\ p.nu < NuOne
      [] d = "inverse_batschelet" ->
            /\ p.kappa >= 0
            /\ -NuOne <= p.nu /\ p.nu <= NuOne
            /\ -LmbdOne <= p.lmbd /\ p.lmbd <= LmbdOne

DocumentedDists ==
    {"cardioid", "vonmises", "jonespewsey", "vonmises_ext",
     "jonespewsey_sineskewed", "jonespewsey_asymext", "inverse_batschelet"}

\* C5: the validator returns false exactly when a parameter is outside its
\* documented domain; kappa = 0 and the boundary values are accepted.
C5_ArgcheckIsDomain ==
    (fn = "argcheck" /\ dist \in DocumentedDists) =>
        ret.bool = InDomain(dist, params)

\* C6: a quadrature-based cumulative returns one number per element of x,
\* the integral of the density from 0 to that element, and no error
\* estimate.
C6_CdfReturnsValues ==
    (fn = "cdf" /\ dist \in QuadDists) =>
        /\ DOMAIN ret = {"array"}
        /\ Len(ret.array) = Len(x)
        /\ \A i \in 1..Len(x) :
               /\ ret.array[i].part = "integral"
               /\ ret.array[i].a = 0
               /\ ret.array[i].b = x[i]

\* The formulas an entry point of the Jones-Pewsey family evaluated.
Evaluated ==
    IF fn = "pdf" THEN {ret}
    ELSE IF DOMAIN ret = {"tuple"}
         THEN {ret.tuple[1][i].integrand : i \in 1..Len(x)}
         ELSE {ret.array[i].integrand : i \in 1..Len(x)}

\* C8: when |psi| is close to 0 no entry point of the Jones-Pewsey family
\* evaluates the raw formula with exponent 1/psi, for the kernel or for the
\* normalizing constant, and none raises.
C8_NoRawFormulaAtPsiZero ==
    (/\ dist \in {"jonespewsey", "jonespewsey_sineskewed",
                  "jonespewsey_asymext"}
     /\ fn \in {"pdf", "cdf"}
     /\ isclose_psi(params.psi)) =>
        /\ \A v \in Evaluated : ~UsesRaw(v)
        /\ signal # "error"

IBPdf == dist = "inverse_batschelet" /\ fn = "pdf"

TSolved == \A i \in 1..Len(x) : conv.T[i]

SSolved ==
    isclose_lmbd(params.lmbd, -LmbdOne) \/ \A i \in 1..Len(x) : conv.S[i]

\* C7: when a root solve of the inverse Batschelet density does not
\* converge for some element, the call surfaces it (error or warning).
C7_NonConvergenceSurfaced ==
    (IBPdf /\ ~(TSolved /\ SSolved)) => signal # "none"

LePi(v) == ~GtPi(v)

\* v <= -pi: (p + 2)*pi + 2*r <= 0
LeNegPi(v) == 2 * v.r * PiDen <= (-2 - v.p) * PiNum

\* C9: every value the transform solve returns for a solved zero lies in
\* (-pi, pi].
C9_TnuCanonical ==
    (IBPdf /\ TSolved) =>
        \A i \in 1..Len(x) :
            LePi(ret.array[i].arg1) /\ ~LeNegPi(ret.array[i].arg1)

\* The call on the one angle x[i], the solver able to do on it what it can
\* do on element i of the array.
Alone(i) ==
    inverse_batschelet_pdf(<<x[i]>>, params.kappa, params.nu, params.lmbd,
        [T |-> <<conv.T[i]>>, Theld |-> <<FALSE>>,
         S |-> <<conv.S[i]>>, Sheld |-> <<FALSE>>]).array[1]

\* C10: the density on an array gives at each position what it gives on
\* that angle alone.
C10_ElementwiseIndependent ==
    IBPdf => \A i \in 1..Len(x) : ret.array[i] = Alone(i)

====
